---- MODULE Spec2Model ----
(***************************************************************************)
(* A model of io_xplane2blender/importer/xplane_imp_cmd_builder.py:        *)
(* ImpCommandBuilder consumes OBJ directives one at a time (build_cmd),    *)
(* keeps a vertex/index table, a stack of animation frames and a list of   *)
(* intermediate datablocks, and finalize_intermediate_blocks turns the     *)
(* list into requests to the scene helpers.                                *)
(*                                                                         *)
(* Python objects that are shared by reference (an IntermediateAnimation   *)
(* is held by its stack entry and by the datablock it is attached to) live *)
(* in a heap, anims, and are referred to by their position in it.  An      *)
(* IntermediateDatablock is referred to by its position in blocks.         *)
(* An uncaught exception leaves build_cmd with the assignments made so far *)
(* in place; err records it, and nothing is dispatched afterwards.         *)
(***************************************************************************)
EXTENDS Integers, Sequences, FiniteSets, TLC

VARIABLES
    vertices,       \* vt_table.vertices
    idxes,          \* vt_table.idxes
    blocks,         \* _blocks: the datablocks, ROOT first
    anims,          \* the IntermediateAnimation objects alive
    stack,          \* _anim_intermediate_stack: entries (animation, inter_datablock)
    anim_count,     \* _anim_count: animations opened per ANIM_begin level
    last_axis,      \* _last_axis
    err,            \* the exception the last call raised, or "none"
    finalize_calls, \* how often finalize_intermediate_blocks has been called
    scene,          \* the requests the last finalize call made to the scene helpers
    scen,           \* observer: how far the dispatched stream follows each scenario
    wellformed,     \* observer: no ANIM_end / animation begin outside a block so far
    rec_rotations,  \* recompose_rotation: the rotations mapping it reads
    rec_i,          \* recompose_rotation: the keyframe index
    rec_result,     \* recompose_rotation: what the call gave
    heap,           \* two builders: the datarefs and animations of the process
    instances,      \* two builders: the fields of each ImpCommandBuilder
    alone           \* two builders: each builder had it been sent its directives alone

builder == <<vertices, idxes, blocks, anims, stack, anim_count, last_axis>>
finalizer == <<finalize_calls, scene>>
observers == <<scen, wellformed>>
recompose == <<rec_rotations, rec_i, rec_result>>
process == <<heap, instances, alone>>
vars == <<builder, err, finalizer, observers, recompose, process>>

----
\* Bounds of the model.  The command items the builder holds at one time (open
\* blocks, stack entries, datablocks, keyframes, datarefs changed by ANIM_show,
\* ANIM_hide or ANIM_keyframe_loop) are at most MaxItems.  The table and the
\* command side do not read each other before finalization, so they are explored
\* in depth one at a time: while the table holds entries (at most MaxTable
\* vertices and MaxTable indices) the builder holds at most MaxGeomItems items.
MaxItems == 5
MaxGeomItems == 1
MaxTable == 2
MaxFinalize == 2

\* Constants of the program.
ANIM_TYPE_TRANSFORM == "transform"
ANIM_TYPE_SHOW == "show"
ANIM_TYPE_HIDE == "hide"
None == "None"
NoBlock == 0
NoAnimation == 0

\* The inputs the directives are drawn from.
IdxRuns == {<<0, 1, 2>>, <<2, 0>>}
IdxArgs == {<<0>>, <<1>>, <<2>>, <<0, 1, 2>>}
TrisCalls == {[args |-> <<0, 3>>, name_hint |-> ""],
              [args |-> <<1, 2>>, name_hint |-> "hinted"]}
TransPaths == {"dataref/x"}
KeyArgs == {<<0, "loc0">>, <<1, "loc1">>}
ShowHideArgs == {<<1, 2, "dataref/s">>}
Axes == {"X", "Y", "Z"}
RotateAxes == {"X"}
RotateKeyArgs == {<<0, 10>>}
LoopArgs == {<<4>>}
UnknownDirectives == {"ATTR_LOD", "anim_begin"}

----
\* IntermediateDataref(...) as ANIM_trans_begin builds it.
IntermediateDataref(anim_type, loop, path, v1, v2, values) ==
    [anim_type |-> anim_type, loop |-> loop, path |-> path,
     show_hide_v1 |-> v1, show_hide_v2 |-> v2, values |-> values]

\* IntermediateAnimation(): empty locations, rotations defaulting to an empty
\* list, and the class-wide default dataref.
IntermediateAnimation ==
    [locations |-> <<>>, rotations |-> <<>>,
     xp_dataref |-> IntermediateDataref(ANIM_TYPE_TRANSFORM, 0, "", 0, 0, <<>>)]

IntermediateDatablock(type, name, parent, start_idx, count, animations) ==
    [datablock_type |-> type, name |-> name, parent |-> parent,
     start_idx |-> start_idx, count |-> count, animations_to_apply |-> animations]

root_intermediate_datablock ==
    IntermediateDatablock("EMPTY", "ROOT", None, None, None, <<>>)

_AnimBoneStackEntry(animation, inter_datablock) ==
    [animation |-> animation, inter_datablock |-> inter_datablock]

\* The properties of the builder.

\* A variant of _current_animation that gives the animation of the bottom frame.
_current_animation_Bottom == IF stack = <<>> THEN NoAnimation ELSE stack[1].animation

_current_animation == IF stack = <<>> THEN NoAnimation ELSE stack[Len(stack)].animation
_current_intermediate_datablock == stack[Len(stack)].inter_datablock

SetTop(s, entry) == [s EXCEPT ![Len(s)] = entry]

Max(S) == CHOOSE x \in S : \A y \in S : y <= x

\* Reference counting: an animation no stack entry and no datablock holds is freed.
LiveAnims(stk, blks) ==
    {stk[k].animation : k \in 1..Len(stk)}
        \cup UNION {{blks[b].animations_to_apply[j] :
                        j \in 1..Len(blks[b].animations_to_apply)} : b \in 1..Len(blks)}

Collect(live, stk, blks) == SubSeq(live, 1, Max(LiveAnims(stk, blks) \cup {0}))

----
\* build_cmd, one operator per branch.  Each is the whole branch: what it assigns
\* before an exception stays assigned.

\* A variant of make_empty_as_needed that makes the empty and binds no frame to it.
make_empty_as_needed_Unbound ==
    IF stack # <<>> /\ _current_intermediate_datablock = NoBlock
    THEN [blocks |-> Append(blocks, IntermediateDatablock(
                         "EMPTY", "next_empty_name", root_intermediate_datablock.name,
                         None, None, <<_current_animation>>)),
          stack |-> stack]
    ELSE [blocks |-> blocks, stack |-> stack]

\* A variant of make_empty_as_needed that never makes the empty.
make_empty_as_needed_Never == [blocks |-> blocks, stack |-> stack]

make_empty_as_needed ==
    IF stack # <<>> /\ _current_intermediate_datablock = NoBlock
    THEN LET empt == IntermediateDatablock(
                         "EMPTY", "next_empty_name",
                         IF _current_intermediate_datablock # NoBlock
                         THEN blocks[_current_intermediate_datablock].name
                         ELSE root_intermediate_datablock.name,
                         None, None, <<_current_animation>>)
         IN [blocks |-> Append(blocks, empt),
             stack |-> SetTop(stack, _AnimBoneStackEntry(_current_animation,
                                                         Len(blocks) + 1))]
    ELSE [blocks |-> blocks, stack |-> stack]

Do_VT ==
    /\ vertices' = Append(vertices, [vt |-> Len(vertices)])
    /\ err' = "none"
    /\ UNCHANGED <<idxes, blocks, anims, stack, anim_count, last_axis>>

Do_IDX(args) ==
    /\ idxes' = Append(idxes, args[1])
    /\ err' = "none"
    /\ UNCHANGED <<vertices, blocks, anims, stack, anim_count, last_axis>>

Do_IDX10(args) ==
    /\ idxes' = idxes \o args
    /\ err' = "none"
    /\ UNCHANGED <<vertices, blocks, anims, stack, anim_count, last_axis>>

\* A variant that pairs whenever there is a frame, bound or not.
should_apply_animation_Rebinds == _current_animation # NoAnimation

should_apply_animation ==
    _current_animation # NoAnimation /\ _current_intermediate_datablock = NoBlock

\* A variant of TRIS that parents every MESH to ROOT.
Do_TRIS_UnderRoot(args, name_hint) ==
    LET inter_datablock == IntermediateDatablock(
            "MESH",
            IF name_hint # "" THEN name_hint ELSE "next_obj_name",
            root_intermediate_datablock.name, args[1], args[2],
            IF should_apply_animation THEN <<_current_animation>> ELSE <<>>)
    IN /\ blocks' = Append(blocks, inter_datablock)
       /\ stack' = IF should_apply_animation
                   THEN SetTop(stack, _AnimBoneStackEntry(_current_animation,
                                                          Len(blocks) + 1))
                   ELSE stack
       /\ err' = "none"
       /\ UNCHANGED <<vertices, idxes, anims, anim_count, last_axis>>

\* A variant of TRIS that parents a MESH it does not pair with a frame to ROOT.
Do_TRIS_UnpairedUnderRoot(args, name_hint) ==
    LET parent == IF should_apply_animation /\ Len(stack) >= 2
                  THEN stack[Len(stack) - 1].inter_datablock
                  ELSE 1
        inter_datablock == IntermediateDatablock(
            "MESH",
            IF name_hint # "" THEN name_hint ELSE "next_obj_name",
            blocks[parent].name, args[1], args[2],
            IF should_apply_animation THEN <<_current_animation>> ELSE <<>>)
    IN /\ blocks' = Append(blocks, inter_datablock)
       /\ stack' = IF should_apply_animation
                   THEN SetTop(stack, _AnimBoneStackEntry(_current_animation,
                                                          Len(blocks) + 1))
                   ELSE stack
       /\ err' = "none"
       /\ UNCHANGED <<vertices, idxes, anims, anim_count, last_axis>>

\* A variant of TRIS that gives every MESH made under a frame that frame's
\* animation.
Do_TRIS_AlwaysAnimated(args, name_hint) ==
    LET inter_datablock == IntermediateDatablock(
            "MESH",
            IF name_hint # "" THEN name_hint ELSE "next_obj_name",
            root_intermediate_datablock.name, args[1], args[2],
            IF stack # <<>> THEN <<_current_animation>> ELSE <<>>)
    IN /\ blocks' = Append(blocks, inter_datablock)
       /\ stack' = IF stack # <<>>
                   THEN SetTop(stack, _AnimBoneStackEntry(_current_animation,
                                                          Len(blocks) + 1))
                   ELSE stack
       /\ err' = "none"
       /\ UNCHANGED <<vertices, idxes, anims, anim_count, last_axis>>

\* A variant of TRIS that names the new MESH itself as its parent.
Do_TRIS_OwnParent(args, name_hint) ==
    LET name == IF name_hint # "" THEN name_hint ELSE "next_obj_name"
    IN /\ blocks' = Append(blocks, IntermediateDatablock(
                        "MESH", name, name, args[1], args[2],
                        IF should_apply_animation THEN <<_current_animation>>
                        ELSE <<>>))
       /\ stack' = IF should_apply_animation
                   THEN SetTop(stack, _AnimBoneStackEntry(_current_animation,
                                                          Len(blocks) + 1))
                   ELSE stack
       /\ err' = "none"
       /\ UNCHANGED <<vertices, idxes, anims, anim_count, last_axis>>

\* A variant of TRIS that puts the new MESH right after ROOT.
Do_TRIS_Prepends(args, name_hint) ==
    LET inter_datablock == IntermediateDatablock(
            "MESH",
            IF name_hint # "" THEN name_hint ELSE "next_obj_name",
            root_intermediate_datablock.name, args[1], args[2], <<>>)
    IN /\ blocks' = <<blocks[1], inter_datablock>> \o Tail(blocks)
       /\ err' = "none"
       /\ UNCHANGED <<vertices, idxes, anims, stack, anim_count, last_axis>>

Do_TRIS(args, name_hint) ==
    LET start_idx == args[1]
        count == args[2]
        parent == IF Len(stack) >= 2 THEN stack[Len(stack) - 1].inter_datablock
                  ELSE 1
    IN  IF parent = NoBlock
        THEN /\ err' = "AttributeError"
             /\ UNCHANGED builder
        ELSE LET inter_datablock == IntermediateDatablock(
                     "MESH",
                     IF name_hint # "" THEN name_hint ELSE "next_obj_name",
                     blocks[parent].name, start_idx, count,
                     IF should_apply_animation THEN <<_current_animation>> ELSE <<>>)
             IN /\ blocks' = Append(blocks, inter_datablock)
                /\ stack' = IF should_apply_animation
                            THEN SetTop(stack, _AnimBoneStackEntry(_current_animation,
                                                                   Len(blocks) + 1))
                            ELSE stack
                /\ err' = "none"
                /\ UNCHANGED <<vertices, idxes, anims, anim_count, last_axis>>

Do_ANIM_begin ==
    /\ anim_count' = Append(anim_count, 0)
    /\ err' = "none"
    /\ UNCHANGED <<vertices, idxes, blocks, anims, stack, last_axis>>

\* A variant of ANIM_end that pops one frame fewer than the level opened.
Do_ANIM_end_PopsOneShort ==
    IF anim_count = <<>>
    THEN /\ err' = "IndexError"
         /\ UNCHANGED builder
    ELSE LET n == anim_count[Len(anim_count)]
             popped == IF n = 0 THEN 0 ELSE n - 1
         IN /\ anim_count' = SubSeq(anim_count, 1, Len(anim_count) - 1)
            /\ stack' = SubSeq(stack, 1, Len(stack) - popped)
            /\ anims' = Collect(anims, stack', blocks)
            /\ err' = "none"
            /\ UNCHANGED <<vertices, idxes, blocks, last_axis>>

\* A variant of ANIM_end that takes an unopened block for an empty one.
Do_ANIM_end_IgnoresUnopened ==
    LET n == IF anim_count = <<>> THEN 0 ELSE anim_count[Len(anim_count)]
    IN /\ anim_count' = SubSeq(anim_count, 1, Len(anim_count) - 1)
       /\ stack' = SubSeq(stack, 1, Len(stack) - n)
       /\ anims' = Collect(anims, stack', blocks)
       /\ err' = "none"
       /\ UNCHANGED <<vertices, idxes, blocks, last_axis>>

Do_ANIM_end ==
    IF anim_count = <<>>
    THEN /\ err' = "IndexError"
         /\ UNCHANGED builder
    ELSE LET n == anim_count[Len(anim_count)]
             popped == IF n <= Len(stack) THEN n ELSE Len(stack)
         IN /\ anim_count' = SubSeq(anim_count, 1, Len(anim_count) - 1)
            /\ stack' = SubSeq(stack, 1, Len(stack) - popped)
            /\ anims' = Collect(anims, stack', blocks)
            /\ err' = IF n <= Len(stack) THEN "none" ELSE "IndexError"
            /\ UNCHANGED <<vertices, idxes, blocks, last_axis>>

\* A variant of ANIM_trans_begin that leaves the count of open animations alone.
Do_ANIM_trans_begin_Uncounted(args) ==
    /\ blocks' = make_empty_as_needed.blocks
    /\ anims' = Append(anims, [IntermediateAnimation EXCEPT !.xp_dataref =
                    IntermediateDataref(ANIM_TYPE_TRANSFORM, 0, args[1], 0, 0, <<>>)])
    /\ stack' = Append(make_empty_as_needed.stack,
                       _AnimBoneStackEntry(Len(anims) + 1, NoBlock))
    /\ err' = IF anim_count = <<>> THEN "IndexError" ELSE "none"
    /\ UNCHANGED <<vertices, idxes, anim_count, last_axis>>

Do_ANIM_trans_begin(args) ==
    LET dataref_path == args[1]
        made == make_empty_as_needed
        animation == [IntermediateAnimation EXCEPT !.xp_dataref =
                        IntermediateDataref(ANIM_TYPE_TRANSFORM, 0, dataref_path,
                                            0, 0, <<>>)]
    IN /\ blocks' = made.blocks
       /\ anims' = Append(anims, animation)
       /\ stack' = Append(made.stack, _AnimBoneStackEntry(Len(anims) + 1, NoBlock))
       /\ IF anim_count = <<>>
          THEN /\ err' = "IndexError"
               /\ UNCHANGED anim_count
          ELSE /\ anim_count' = [anim_count EXCEPT ![Len(anim_count)] = @ + 1]
               /\ err' = "none"
       /\ UNCHANGED <<vertices, idxes, last_axis>>

\* A variant of ANIM_trans_key that skips the keyframe when no frame is open.
Do_ANIM_trans_key_SkipsWithoutFrame(args) ==
    IF _current_animation = NoAnimation
    THEN /\ err' = "none"
         /\ UNCHANGED builder
    ELSE /\ anims' = [anims EXCEPT
                ![_current_animation].locations = Append(@, args[2]),
                ![_current_animation].xp_dataref.values = Append(@, args[1])]
         /\ err' = "none"
         /\ UNCHANGED <<vertices, idxes, blocks, stack, anim_count, last_axis>>

\* A variant of ANIM_trans_key that records the location and not the value.
Do_ANIM_trans_key_LocationOnly(args) ==
    IF _current_animation = NoAnimation
    THEN /\ err' = "AttributeError"
         /\ UNCHANGED builder
    ELSE /\ anims' = [anims EXCEPT
                ![_current_animation].locations = Append(@, args[2])]
         /\ err' = "none"
         /\ UNCHANGED <<vertices, idxes, blocks, stack, anim_count, last_axis>>

Do_ANIM_trans_key(args) ==
    LET value == args[1]
        location == args[2]
    IN  IF _current_animation = NoAnimation
        THEN /\ err' = "AttributeError"
             /\ UNCHANGED builder
        ELSE /\ anims' = [anims EXCEPT
                    ![_current_animation].locations = Append(@, location),
                    ![_current_animation].xp_dataref.values = Append(@, value)]
             /\ err' = "none"
             /\ UNCHANGED <<vertices, idxes, blocks, stack, anim_count, last_axis>>

Do_ANIM_trans_end ==
    /\ err' = "none"
    /\ UNCHANGED builder

\* "ANIM_hide".split("_")[1] is "hide", "ANIM_show".split("_")[1] is "show".
\* A variant of the split that takes ANIM_hide for show and ANIM_show for hide.
SplitKind_Swapped(directive) == IF directive = "ANIM_hide" THEN "show" ELSE "hide"

SplitKind(directive) == IF directive = "ANIM_hide" THEN "hide" ELSE "show"

Do_ANIM_show_hide(directive, args) ==
    IF _current_animation = NoAnimation
    THEN /\ err' = "AttributeError"
         /\ UNCHANGED builder
    ELSE /\ anims' = [anims EXCEPT
                ![_current_animation].xp_dataref.anim_type = SplitKind(directive),
                ![_current_animation].xp_dataref.path = args[3],
                ![_current_animation].xp_dataref.show_hide_v1 = args[1],
                ![_current_animation].xp_dataref.show_hide_v2 = args[2]]
         /\ err' = "none"
         /\ UNCHANGED <<vertices, idxes, blocks, stack, anim_count, last_axis>>

\* _last_axis is assigned, then xp_dataref.append raises: None has no xp_dataref,
\* and an IntermediateDataref has no append.
Do_ANIM_rotate_begin(args) ==
    /\ last_axis' = args[1]
    /\ err' = "AttributeError"
    /\ UNCHANGED <<vertices, idxes, blocks, anims, stack, anim_count>>

\* rotations is a list: indexing it with the frozen axis is a TypeError.
Do_ANIM_rotate_key(args) ==
    /\ err' = IF _current_animation = NoAnimation \/ last_axis = None
              THEN "AttributeError" ELSE "TypeError"
    /\ UNCHANGED builder

Do_ANIM_rotate_end ==
    /\ last_axis' = None
    /\ err' = "none"
    /\ UNCHANGED <<vertices, idxes, blocks, anims, stack, anim_count>>

Do_ANIM_keyframe_loop(args) ==
    IF _current_animation = NoAnimation
    THEN /\ err' = "AttributeError"
         /\ UNCHANGED builder
    ELSE /\ anims' = [anims EXCEPT ![_current_animation].xp_dataref.loop = args[1]]
         /\ err' = "none"
         /\ UNCHANGED <<vertices, idxes, blocks, stack, anim_count, last_axis>>

Do_skip ==
    /\ err' = "none"
    /\ UNCHANGED builder

\* A variant of build_cmd that reads "anim_begin" as ANIM_begin.
build_cmd_IgnoresCase(directive, args, name_hint) ==
    CASE directive = "VT" -> Do_VT
      [] directive = "IDX" -> Do_IDX(args)
      [] directive = "IDX10" -> Do_IDX10(args)
      [] directive = "TRIS" -> Do_TRIS(args, name_hint)
      [] directive \in {"ANIM_begin", "anim_begin"} -> Do_ANIM_begin
      [] directive = "ANIM_end" -> Do_ANIM_end
      [] directive = "ANIM_trans_begin" -> Do_ANIM_trans_begin(args)
      [] directive = "ANIM_trans_key" -> Do_ANIM_trans_key(args)
      [] directive = "ANIM_trans_end" -> Do_ANIM_trans_end
      [] directive \in {"ANIM_hide", "ANIM_show"} -> Do_ANIM_show_hide(directive, args)
      [] directive = "ANIM_rotate_begin" -> Do_ANIM_rotate_begin(args)
      [] directive = "ANIM_rotate_key" -> Do_ANIM_rotate_key(args)
      [] directive = "ANIM_rotate_end" -> Do_ANIM_rotate_end
      [] directive = "ANIM_keyframe_loop" -> Do_ANIM_keyframe_loop(args)
      [] OTHER -> Do_skip

build_cmd(directive, args, name_hint) ==
    CASE directive = "VT" -> Do_VT
      [] directive = "IDX" -> Do_IDX(args)
      [] directive = "IDX10" -> Do_IDX10(args)
      [] directive = "TRIS" -> Do_TRIS(args, name_hint)
      [] directive = "ANIM_begin" -> Do_ANIM_begin
      [] directive = "ANIM_end" -> Do_ANIM_end
      [] directive = "ANIM_trans_begin" -> Do_ANIM_trans_begin(args)
      [] directive = "ANIM_trans_key" -> Do_ANIM_trans_key(args)
      [] directive = "ANIM_trans_end" -> Do_ANIM_trans_end
      [] directive \in {"ANIM_hide", "ANIM_show"} -> Do_ANIM_show_hide(directive, args)
      [] directive = "ANIM_rotate_begin" -> Do_ANIM_rotate_begin(args)
      [] directive = "ANIM_rotate_key" -> Do_ANIM_rotate_key(args)
      [] directive = "ANIM_rotate_end" -> Do_ANIM_rotate_end
      [] directive = "ANIM_keyframe_loop" -> Do_ANIM_keyframe_loop(args)
      [] OTHER -> Do_skip

----
\* finalize_intermediate_blocks and what it calls.

Min(a, b) == IF a <= b THEN a ELSE b

\* lst[lo:hi] of Python, for 0 <= lo and 0 <= hi: the slice is cut at the end of
\* the list, it never raises.
Slice(lst, lo, hi) == SubSeq(lst, lo + 1, Min(hi, Len(lst)))

Reverse(s) == [k \in 1..Len(s) |-> s[Len(s) + 1 - k]]

\* A variant of the faces that keeps the winding order of the OBJ.
Faces_KeepsWinding(mesh_idxes, start_idx) ==
    [f \in 1..((Len(mesh_idxes) + 2) \div 3) |->
        LET chunk == Slice(mesh_idxes, 3 * (f - 1), 3 * (f - 1) + 3)
        IN [k \in 1..Len(chunk) |-> chunk[k] - start_idx]]

\* The faces of build_mesh: each chunk of three indices, reversed, each index
\* moved down by start_idx.
Faces(mesh_idxes, start_idx) ==
    [f \in 1..((Len(mesh_idxes) + 2) \div 3) |->
        LET chunk == Slice(mesh_idxes, 3 * (f - 1), 3 * (f - 1) + 3)
        IN [k \in 1..Len(chunk) |-> Reverse(chunk)[k] - start_idx]]

\* vertices[idx] of Python raises outside -len .. len-1.
InList(idx, lst) == -Len(lst) <= idx /\ idx < Len(lst)

\* recompose_rotation(i): rotations[axis][i] for the three unit axes in turn.
\* A missing axis is a KeyError, a missing keyframe an IndexError.
recompose_rotation(rotations, i) ==
    LET missing == {a \in {"X", "Y", "Z"} : a \notin DOMAIN rotations}
        short == {a \in {"X", "Y", "Z"} \ missing : i + 1 > Len(rotations[a])}
        First(S) == IF "X" \in S THEN "X" ELSE IF "Y" \in S THEN "Y" ELSE "Z"
        \* the first axis, in the order x, y, z, whose lookup raises
        bad == First(missing \cup short)
    IN  IF missing \cup short = {}
        THEN [err |-> "none",
              rot |-> <<rotations["X"][i + 1], rotations["Y"][i + 1],
                        rotations["Z"][i + 1]>>]
        ELSE [err |-> IF bad \in missing THEN "KeyError" ELSE "IndexError",
              rot |-> None]

\* A variant of KeyframeInfo that numbers the frames from 0.
KeyframeInfo_FromZero(animation, i) ==
    [idx |-> i,
     dataref_path |-> animation.xp_dataref.path,
     dataref_value |-> animation.xp_dataref.values[i + 1],
     dataref_anim_type |-> animation.xp_dataref.anim_type,
     dataref_show_hide_v1 |-> None,
     dataref_show_hide_v2 |-> None,
     location |-> IF animation.locations # <<>>
                  THEN animation.locations[i + 1] ELSE None,
     rotation |-> IF DOMAIN animation.rotations # {}
                  THEN recompose_rotation(animation.rotations, i).rot ELSE None]

\* One KeyframeInfo of a transform animation (i counts from 0).
KeyframeInfo(animation, i) ==
    [idx |-> i + 1,
     dataref_path |-> animation.xp_dataref.path,
     dataref_value |-> animation.xp_dataref.values[i + 1],
     dataref_anim_type |-> animation.xp_dataref.anim_type,
     dataref_show_hide_v1 |-> None,
     dataref_show_hide_v2 |-> None,
     location |-> IF animation.locations # <<>>
                  THEN animation.locations[i + 1] ELSE None,
     rotation |-> IF DOMAIN animation.rotations # {}
                  THEN recompose_rotation(animation.rotations, i).rot ELSE None]

\* The exception building keyframe i raises, or "none".
KeyframeError(animation, i) ==
    IF animation.locations # <<>> /\ i + 1 > Len(animation.locations)
    THEN "IndexError"
    ELSE IF DOMAIN animation.rotations # {}
         THEN recompose_rotation(animation.rotations, i).err
         ELSE "none"

\* apply_animation: the keyframe_infos handed to set_animation_data, or the
\* exception raised before that call.
apply_animation(animation) ==
    IF animation.xp_dataref.anim_type = ANIM_TYPE_TRANSFORM
    THEN LET n == Len(animation.xp_dataref.values)
             errs == {i \in 0..(n - 1) : KeyframeError(animation, i) # "none"}
         IN IF errs = {}
            THEN [err |-> "none",
                  keyframe_infos |-> [k \in 1..n |-> KeyframeInfo(animation, k - 1)]]
            ELSE [err |-> KeyframeError(animation,
                                        CHOOSE i \in errs : \A j \in errs : i <= j),
                  keyframe_infos |-> <<>>]
    ELSE [err |-> "none",
          keyframe_infos |->
              <<[idx |-> 1,
                 dataref_path |-> animation.xp_dataref.path,
                 dataref_value |-> None,
                 dataref_anim_type |-> animation.xp_dataref.anim_type,
                 dataref_show_hide_v1 |-> animation.xp_dataref.show_hide_v1,
                 dataref_show_hide_v2 |-> animation.xp_dataref.show_hide_v2,
                 location |-> None,
                 rotation |-> None]>>]

\* A request to the scene helpers.
Request(helper, b, block, verts, faces, normals, keyframe_infos) ==
    [helper |-> helper, block |-> b, name |-> block.name, parent |-> block.parent,
     vertices |-> verts, faces |-> faces, normals |-> normals,
     keyframe_infos |-> keyframe_infos]

\* What build_mesh hands to from_pydata for a datablock: the vertices and faces.
MeshData(block) ==
    LET mesh_idxes == Slice(idxes, block.start_idx, block.start_idx + block.count)
    IN [vertices |-> Slice(vertices, block.start_idx, block.start_idx + block.count),
        faces |-> Faces(mesh_idxes, block.start_idx)]

\* A variant of build_mesh that raises when me.validate() reports a failure.
build_mesh_RejectsInvalid(block, b, validate_ret) ==
    IF validate_ret
    THEN [block |-> block, requests |-> <<>>, err |-> "ValueError"]
    ELSE [block |-> block,
          requests |-> <<Request("create_datablock_mesh", b, block,
                                 MeshData(block).vertices, MeshData(block).faces,
                                 TRUE, <<>>)>>,
          err |-> "none"]

\* build_mesh of datablock b.  validate_ret is what me.validate() returns.
\* Gives the datablock as build_mesh leaves it, the requests made and the
\* exception raised.
build_mesh(block, b, validate_ret) ==
    LET verts == MeshData(block).vertices
        faces == MeshData(block).faces
        used == UNION {{faces[f][k] : k \in 1..Len(faces[f])} : f \in 1..Len(faces)}
        unparented == IF block.parent = "ROOT"
                      THEN [block EXCEPT !.parent = None] ELSE block
    IN  IF block.parent = None
        THEN [block |-> block, requests |-> <<>>, err |-> "AttributeError"]
        ELSE IF ~validate_ret /\ \E idx \in used : ~InList(idx, verts)
        THEN [block |-> unparented,
              requests |-> <<Request("create_datablock_mesh", b, unparented,
                                     verts, faces, FALSE, <<>>)>>,
              err |-> "IndexError"]
        ELSE [block |-> unparented,
              requests |-> <<Request("create_datablock_mesh", b, unparented,
                                     verts, faces, ~validate_ret, <<>>)>>,
              err |-> "none"]

\* The animations of a datablock from the j-th on: the requests made, and the
\* exception that ended them.
RECURSIVE ApplyAnimations(_, _, _, _)
ApplyAnimations(block, b, j, requests) ==
    IF j > Len(block.animations_to_apply)
    THEN [requests |-> requests, err |-> "none"]
    ELSE LET applied == apply_animation(anims[block.animations_to_apply[j]])
         IN IF applied.err # "none"
            THEN [requests |-> requests, err |-> applied.err]
            ELSE ApplyAnimations(block, b, j + 1,
                     Append(requests,
                            Request("set_animation_data", b, block, <<>>, <<>>,
                                    FALSE, applied.keyframe_infos)))

\* The loop of finalize_intermediate_blocks from datablock b on.
RECURSIVE FinalizeFrom(_, _, _, _)
FinalizeFrom(b, blks, requests, validate_rets) ==
    IF b > Len(blks)
    THEN [blocks |-> blks, requests |-> requests, err |-> "none"]
    ELSE LET built == IF blks[b].datablock_type = "EMPTY"
                      THEN [block |-> blks[b],
                            requests |-> <<Request("create_datablock_empty", b,
                                                   blks[b], <<>>, <<>>, FALSE, <<>>)>>,
                            err |-> "none"]
                      ELSE build_mesh(blks[b], b, validate_rets[MeshData(blks[b])])
             blks2 == [blks EXCEPT ![b] = built.block]
             applied == ApplyAnimations(built.block, b, 1, requests \o built.requests)
         IN IF built.err # "none"
            THEN [blocks |-> blks2, requests |-> requests \o built.requests,
                  err |-> built.err]
            ELSE IF applied.err # "none"
            THEN [blocks |-> blks2, requests |-> applied.requests, err |-> applied.err]
            ELSE FinalizeFrom(b + 1, blks2, applied.requests, validate_rets)

\* A variant of finalize_intermediate_blocks that starts at ROOT.
finalize_intermediate_blocks_FromRoot(validate_rets) ==
    LET done == FinalizeFrom(1, blocks, <<>>, validate_rets)
    IN /\ blocks' = done.blocks
       /\ scene' = done.requests
       /\ err' = done.err
       /\ finalize_calls' = finalize_calls + 1
       /\ UNCHANGED <<vertices, idxes, anims, stack, anim_count, last_axis>>

finalize_intermediate_blocks(validate_rets) ==
    LET done == FinalizeFrom(2, blocks, <<>>, validate_rets)
    IN /\ blocks' = done.blocks
       /\ scene' = done.requests
       /\ err' = done.err
       /\ finalize_calls' = finalize_calls + 1
       /\ UNCHANGED <<vertices, idxes, anims, stack, anim_count, last_axis>>

----
\* Observers of the dispatched stream.  They read the directives and write
\* nothing the builder reads.

Step(name, args) == [name |-> name, any |-> FALSE, args |-> args]
AnyArgs(name) == [name |-> name, any |-> TRUE, args |-> <<>>]

\* The streams the scenarios name.
Stream(s) ==
    CASE s = "nested" ->
            <<AnyArgs("ANIM_begin"), AnyArgs("ANIM_trans_begin"),
              AnyArgs("ANIM_trans_end"), Step("ANIM_rotate_begin", <<"X", "dataref/x">>),
              AnyArgs("ANIM_rotate_key"), AnyArgs("ANIM_rotate_end"),
              AnyArgs("ANIM_end")>>
      [] s = "translate" ->
            <<AnyArgs("ANIM_begin"), Step("ANIM_trans_begin", <<"dataref/x">>),
              Step("ANIM_trans_key", <<0, "loc0">>),
              Step("ANIM_trans_key", <<1, "loc1">>),
              AnyArgs("ANIM_trans_end"), AnyArgs("ANIM_end")>>
      [] s = "triangle_run" ->
            <<AnyArgs("VT"), AnyArgs("VT"), AnyArgs("VT"),
              Step("IDX", <<0, 1, 2>>), Step("TRIS", <<0, 3>>)>>
      [] s = "triangle" ->
            <<AnyArgs("VT"), AnyArgs("VT"), AnyArgs("VT"),
              Step("IDX", <<0>>), Step("IDX", <<1>>), Step("IDX", <<2>>),
              Step("TRIS", <<0, 3>>)>>
      [] s = "skipped" ->
            <<AnyArgs("ANIM_begin"), AnyArgs("ANIM_trans_begin"),
              Step("ATTR_LOD", <<>>)>>
      [] s = "stray_key" ->
            <<AnyArgs("ANIM_begin"), AnyArgs("ANIM_trans_key")>>
      [] s = "stray_end" ->
            <<AnyArgs("ANIM_begin"), AnyArgs("ANIM_trans_begin"),
              AnyArgs("ANIM_end"), AnyArgs("ANIM_end")>>

Scenarios == {"nested", "translate", "triangle_run", "triangle", "skipped",
              "stray_key", "stray_end"}
Follows(s, directive, args) ==
    /\ scen[s] # -1
    /\ scen[s] < Len(Stream(s))
    /\ LET e == Stream(s)[scen[s] + 1]
       IN /\ e.name = directive
          /\ e.any \/ e.args = args

Observe(directive, args) ==
    /\ scen' = [s \in Scenarios |->
                    IF Follows(s, directive, args) THEN scen[s] + 1 ELSE -1]
    /\ wellformed' = (/\ wellformed
                      /\ ~(directive = "ANIM_end" /\ anim_count = <<>>)
                      /\ ~(/\ directive \in {"ANIM_trans_begin", "ANIM_rotate_begin"}
                           /\ anim_count = <<>>))

\* The whole stream s has been dispatched, and nothing else.
Ran(s) == scen[s] = Len(Stream(s))

----
\* The state after ImpCommandBuilder(filepath).
\* The process before any directive: of the datarefs only the one the class
\* IntermediateAnimation holds as default of xp_dataref exists, and each
\* ImpCommandBuilder is as __init__ leaves it.
NewHeap == [datarefs |-> <<IntermediateAnimation.xp_dataref>>, animations |-> <<>>]

NewBuilder ==
    [vertices |-> <<>>, idxes |-> <<>>, blocks |-> <<root_intermediate_datablock>>,
     stack |-> <<>>, anim_count |-> <<>>, last_axis |-> None, err |-> "none"]

Builders == {"A", "B"}

InitProcess ==
    /\ heap = NewHeap
    /\ instances = [X \in Builders |-> NewBuilder]
    /\ alone = [X \in Builders |->
                    [heap |-> NewHeap, self |-> NewBuilder, dispatched |-> 0]]

InitBuilder ==
    /\ vertices = <<>>
    /\ idxes = <<>>
    /\ blocks = <<root_intermediate_datablock>>
    /\ anims = <<>>
    /\ stack = <<>>
    /\ anim_count = <<>>
    /\ last_axis = None
    /\ err = "none"
    /\ finalize_calls = 0
    /\ scene = <<>>
    /\ scen = [s \in Scenarios |-> 0]
    /\ wellformed = TRUE

Pending == [err |-> "pending", rot |-> None]

Init ==
    /\ InitBuilder
    /\ rec_rotations = <<>>
    /\ rec_i = 0
    /\ rec_result = Pending
    /\ InitProcess

Sum(f) ==
    LET RECURSIVE Upto(_)
        Upto(k) == IF k = 0 THEN 0 ELSE f[k] + Upto(k - 1)
    IN Upto(Len(f))

Changed(dataref) ==
    (IF dataref.anim_type # ANIM_TYPE_TRANSFORM THEN 1 ELSE 0)
        + (IF dataref.loop # 0 THEN 1 ELSE 0)

Items ==
    Len(anim_count) + (Len(blocks) - 1) + Len(stack)
        + Sum([a \in 1..Len(anims) |->
                 Len(anims[a].xp_dataref.values) + Changed(anims[a].xp_dataref)])

WithinBounds ==
    /\ Items <= MaxItems
    /\ Len(vertices) <= MaxTable
    /\ Len(idxes) <= MaxTable
    /\ Len(vertices) + Len(idxes) = 0 \/ Items <= MaxGeomItems

\* One call of build_cmd by the parser: the stream stops at the first exception,
\* and no directive follows finalization.
Dispatch(directive, args, name_hint) ==
    /\ err = "none"
    /\ finalize_calls = 0
    /\ build_cmd(directive, args, name_hint)
    /\ WithinBounds'
    /\ Observe(directive, args)
    /\ UNCHANGED <<finalizer, recompose, process>>

VT ==
    /\ Dispatch("VT", <<>>, "")
IDX ==
    /\ \E args \in IdxArgs : Dispatch("IDX", args, "")
IDX10 ==
    /\ \E args \in IdxRuns : Dispatch("IDX10", args, "")
TRIS ==
    /\ \E call \in TrisCalls : Dispatch("TRIS", call.args, call.name_hint)
ANIM_begin ==
    /\ Dispatch("ANIM_begin", <<>>, "")
ANIM_end ==
    /\ Dispatch("ANIM_end", <<>>, "")
ANIM_trans_begin ==
    /\ \E path \in TransPaths : Dispatch("ANIM_trans_begin", <<path>>, "")
ANIM_trans_key ==
    /\ \E args \in KeyArgs : Dispatch("ANIM_trans_key", args, "")
ANIM_trans_end ==
    /\ Dispatch("ANIM_trans_end", <<>>, "")
ANIM_hide ==
    /\ \E args \in ShowHideArgs : Dispatch("ANIM_hide", args, "")
ANIM_show ==
    /\ \E args \in ShowHideArgs : Dispatch("ANIM_show", args, "")
ANIM_rotate_begin ==
    /\ \E axis \in RotateAxes, path \in TransPaths :
            Dispatch("ANIM_rotate_begin", <<axis, path>>, "")
ANIM_rotate_key ==
    /\ \E args \in RotateKeyArgs : Dispatch("ANIM_rotate_key", args, "")
ANIM_rotate_end ==
    /\ Dispatch("ANIM_rotate_end", <<>>, "")
ANIM_keyframe_loop ==
    /\ \E args \in LoopArgs : Dispatch("ANIM_keyframe_loop", args, "")
Unrecognized ==
    /\ \E directive \in UnknownDirectives : Dispatch(directive, <<>>, "")

Meshes == {b \in 1..Len(blocks) : blocks[b].datablock_type = "MESH"}

\* One call of finalize_intermediate_blocks.  me.validate() is Blender's: what it
\* returns is some function of the mesh data, either value for each.
Finalize ==
    /\ err = "none"
    /\ finalize_calls < MaxFinalize
    /\ \E validate_rets \in [{MeshData(blocks[b]) : b \in Meshes} -> BOOLEAN] :
            finalize_intermediate_blocks(validate_rets)
    /\ UNCHANGED <<observers, recompose, process>>

Next ==
    \/ VT
    \/ IDX
    \/ IDX10
    \/ TRIS
    \/ ANIM_begin
    \/ ANIM_end
    \/ ANIM_trans_begin
    \/ ANIM_trans_key
    \/ ANIM_trans_end
    \/ ANIM_hide
    \/ ANIM_show
    \/ ANIM_rotate_begin
    \/ ANIM_rotate_key
    \/ ANIM_rotate_end
    \/ ANIM_keyframe_loop
    \/ Unrecognized
    \/ Finalize

Spec == Init /\ [][Next]_vars

----
\* recompose_rotation on its own: the rotations mapping an IntermediateAnimation
\* is declared to hold (Dict[Vector, List[float]]), over the unit axes.
DegreeLists == {<<10>>, <<20>>, <<10, 20>>}
RotationInputs == UNION {[D -> DegreeLists] : D \in SUBSET Axes}

InitRecompose ==
    /\ InitBuilder
    /\ rec_rotations \in RotationInputs
    /\ rec_i \in {0, 1}
    /\ rec_result = Pending
    /\ InitProcess

Recompose ==
    /\ rec_result = Pending
    /\ rec_result' = recompose_rotation(rec_rotations, rec_i)
    /\ UNCHANGED <<builder, err, finalizer, observers, rec_rotations, rec_i, process>>

NextRecompose == Recompose

SpecRecompose == InitRecompose /\ [][NextRecompose]_vars

----
\* The tree-building directives on their own, to a greater depth: blocks,
\* transform animations and triangle ranges, with an empty vertex/index table.
MaxTreeItems == 6

TreeTrisCalls == {[args |-> <<0, 3>>, name_hint |-> ""]}

TreeItems == Len(anim_count) + (Len(blocks) - 1) + Len(stack)

DispatchTree(directive, args, name_hint) ==
    /\ err = "none"
    /\ finalize_calls = 0
    /\ build_cmd(directive, args, name_hint)
    /\ TreeItems' <= MaxTreeItems
    /\ Observe(directive, args)
    /\ UNCHANGED <<finalizer, recompose, process>>

Tree_TRIS ==
    /\ \E call \in TreeTrisCalls : DispatchTree("TRIS", call.args, call.name_hint)
Tree_ANIM_begin ==
    /\ DispatchTree("ANIM_begin", <<>>, "")
Tree_ANIM_end ==
    /\ DispatchTree("ANIM_end", <<>>, "")
Tree_ANIM_trans_begin ==
    /\ \E path \in TransPaths : DispatchTree("ANIM_trans_begin", <<path>>, "")

NextTree ==
    \/ Tree_TRIS
    \/ Tree_ANIM_begin
    \/ Tree_ANIM_end
    \/ Tree_ANIM_trans_begin
    \/ Finalize

SpecTree == Init /\ [][NextTree]_vars

----
\* The geometry directives on their own, over a longer table: vertices, indices
\* and triangle ranges that start at the head of the index table or after it.
MaxMeshTable == 4
MaxMeshes == 2

MeshTrisCalls == {[args |-> <<0, 3>>, name_hint |-> ""],
                  [args |-> <<1, 3>>, name_hint |-> ""]}

DispatchMesh(directive, args, name_hint) ==
    /\ err = "none"
    /\ finalize_calls = 0
    /\ build_cmd(directive, args, name_hint)
    /\ Len(vertices') <= MaxMeshTable
    /\ Len(idxes') <= MaxMeshTable
    /\ Len(blocks') - 1 <= MaxMeshes
    /\ Observe(directive, args)
    /\ UNCHANGED <<finalizer, recompose, process>>

Mesh_VT ==
    /\ DispatchMesh("VT", <<>>, "")
Mesh_IDX ==
    /\ \E args \in IdxArgs : DispatchMesh("IDX", args, "")
Mesh_IDX10 ==
    /\ \E args \in IdxRuns : DispatchMesh("IDX10", args, "")
Mesh_TRIS ==
    /\ \E call \in MeshTrisCalls : DispatchMesh("TRIS", call.args, call.name_hint)

NextMesh ==
    \/ Mesh_VT
    \/ Mesh_IDX
    \/ Mesh_IDX10
    \/ Mesh_TRIS
    \/ Finalize

SpecMesh == Init /\ [][NextMesh]_vars

----
\* Two builders in one Python process.  Here objects are addresses: an
\* IntermediateDataref is a position in heap.datarefs, an IntermediateAnimation
\* a position in heap.animations that holds the address of its dataref, and a
\* world w is a heap with one builder on it, [heap |-> h, self |-> s].  The
\* branches of build_cmd are the ones above, written as functions of the world.

MaxPairItems == 3

\* The address of the IntermediateDataref that the class IntermediateAnimation
\* holds as the default of xp_dataref: made once, when the class is defined.
DefaultDataref == 1

Raise(w, exception) == [w EXCEPT !.self.err = exception]

Obj_current_animation(w) ==
    IF w.self.stack = <<>> THEN NoAnimation
    ELSE w.self.stack[Len(w.self.stack)].animation

Obj_current_intermediate_datablock(w) ==
    w.self.stack[Len(w.self.stack)].inter_datablock

Obj_current_dataref(w) == w.heap.animations[Obj_current_animation(w)].xp_dataref

Obj_make_empty_as_needed(w) ==
    IF w.self.stack # <<>> /\ Obj_current_intermediate_datablock(w) = NoBlock
    THEN LET empt == IntermediateDatablock(
                         "EMPTY", "next_empty_name",
                         root_intermediate_datablock.name,
                         None, None, <<Obj_current_animation(w)>>)
         IN [w EXCEPT
                !.self.blocks = Append(@, empt),
                !.self.stack = SetTop(@, _AnimBoneStackEntry(
                                   Obj_current_animation(w), Len(w.self.blocks) + 1))]
    ELSE w

Obj_VT(w) == [w EXCEPT !.self.vertices = Append(@, [vt |-> Len(@)])]

Obj_TRIS(w, args, name_hint) ==
    LET s == w.self
        should_pair ==
            /\ Obj_current_animation(w) # NoAnimation
            /\ Obj_current_intermediate_datablock(w) = NoBlock
        parent == IF Len(s.stack) >= 2 THEN s.stack[Len(s.stack) - 1].inter_datablock
                  ELSE 1
        inter_datablock == IntermediateDatablock(
            "MESH",
            IF name_hint # "" THEN name_hint ELSE "next_obj_name",
            s.blocks[parent].name, args[1], args[2],
            IF should_pair THEN <<Obj_current_animation(w)>> ELSE <<>>)
    IN  IF parent = NoBlock
        THEN Raise(w, "AttributeError")
        ELSE [w EXCEPT
                 !.self.blocks = Append(@, inter_datablock),
                 !.self.stack = IF should_pair
                                THEN SetTop(@, _AnimBoneStackEntry(
                                         Obj_current_animation(w), Len(s.blocks) + 1))
                                ELSE @]

Obj_ANIM_begin(w) == [w EXCEPT !.self.anim_count = Append(@, 0)]

Obj_ANIM_end(w) ==
    LET s == w.self
    IN  IF s.anim_count = <<>>
        THEN Raise(w, "IndexError")
        ELSE LET n == s.anim_count[Len(s.anim_count)]
                 popped == IF n <= Len(s.stack) THEN n ELSE Len(s.stack)
             IN [w EXCEPT
                    !.self.anim_count = SubSeq(@, 1, Len(@) - 1),
                    !.self.stack = SubSeq(@, 1, Len(@) - popped),
                    !.self.err = IF n <= Len(s.stack) THEN "none" ELSE "IndexError"]

\* A variant of ANIM_trans_begin that keeps the dataref the new
\* IntermediateAnimation comes with and assigns the path to it.
Obj_ANIM_trans_begin_KeepsDataref(w, args) ==
    LET made == Obj_make_empty_as_needed(w)
        animation == Len(made.heap.animations) + 1
        pushed == [made EXCEPT
                      !.heap.animations =
                          Append(@, [IntermediateAnimation EXCEPT
                                        !.xp_dataref = DefaultDataref]),
                      !.heap.datarefs[DefaultDataref].path = args[1],
                      !.self.stack = Append(@, _AnimBoneStackEntry(animation, NoBlock))]
    IN  IF pushed.self.anim_count = <<>>
        THEN Raise(pushed, "IndexError")
        ELSE [pushed EXCEPT !.self.anim_count[Len(pushed.self.anim_count)] = @ + 1]

\* IntermediateAnimation() comes with the default dataref; the branch then gives
\* it a new IntermediateDataref.
Obj_ANIM_trans_begin(w, args) ==
    LET made == Obj_make_empty_as_needed(w)
        animation == Len(made.heap.animations) + 1
        pushed == [made EXCEPT
                      !.heap.animations =
                          Append(@, [IntermediateAnimation EXCEPT
                                        !.xp_dataref = DefaultDataref]),
                      !.self.stack = Append(@, _AnimBoneStackEntry(animation, NoBlock))]
        dataref == Len(pushed.heap.datarefs) + 1
        assigned == [pushed EXCEPT
                        !.heap.datarefs =
                            Append(@, IntermediateDataref(ANIM_TYPE_TRANSFORM, 0,
                                                          args[1], 0, 0, <<>>)),
                        !.heap.animations[animation].xp_dataref = dataref]
    IN  IF assigned.self.anim_count = <<>>
        THEN Raise(assigned, "IndexError")
        ELSE [assigned EXCEPT !.self.anim_count[Len(assigned.self.anim_count)] = @ + 1]

Obj_ANIM_trans_key(w, args) ==
    IF Obj_current_animation(w) = NoAnimation
    THEN Raise(w, "AttributeError")
    ELSE [w EXCEPT
             !.heap.animations[Obj_current_animation(w)].locations = Append(@, args[2]),
             !.heap.datarefs[Obj_current_dataref(w)].values = Append(@, args[1])]

Obj_ANIM_show_hide(w, directive, args) ==
    IF Obj_current_animation(w) = NoAnimation
    THEN Raise(w, "AttributeError")
    ELSE [w EXCEPT
             !.heap.datarefs[Obj_current_dataref(w)].anim_type = SplitKind(directive),
             !.heap.datarefs[Obj_current_dataref(w)].path = args[3],
             !.heap.datarefs[Obj_current_dataref(w)].show_hide_v1 = args[1],
             !.heap.datarefs[Obj_current_dataref(w)].show_hide_v2 = args[2]]

Obj_ANIM_keyframe_loop(w, args) ==
    IF Obj_current_animation(w) = NoAnimation
    THEN Raise(w, "AttributeError")
    ELSE [w EXCEPT !.heap.datarefs[Obj_current_dataref(w)].loop = args[1]]

Obj_build_cmd(w, directive, args, name_hint) ==
    CASE directive = "VT" -> Obj_VT(w)
      [] directive = "TRIS" -> Obj_TRIS(w, args, name_hint)
      [] directive = "ANIM_begin" -> Obj_ANIM_begin(w)
      [] directive = "ANIM_end" -> Obj_ANIM_end(w)
      [] directive = "ANIM_trans_begin" -> Obj_ANIM_trans_begin(w, args)
      [] directive = "ANIM_trans_key" -> Obj_ANIM_trans_key(w, args)
      [] directive \in {"ANIM_hide", "ANIM_show"} -> Obj_ANIM_show_hide(w, directive, args)
      [] directive = "ANIM_keyframe_loop" -> Obj_ANIM_keyframe_loop(w, args)
      [] OTHER -> w

\* What an animation holds: its keyframes and the fields of its dataref.
AnimationContents(h, animation) ==
    [h.animations[animation] EXCEPT !.xp_dataref = h.datarefs[@]]

\* What a builder holds, every address replaced by what is found there.
Contents(w) ==
    [w.self EXCEPT
        !.stack = [k \in 1..Len(@) |->
                      [@[k] EXCEPT !.animation = AnimationContents(w.heap, @)]],
        !.blocks = [b \in 1..Len(@) |->
                       [@[b] EXCEPT !.animations_to_apply =
                           [j \in 1..Len(@) |-> AnimationContents(w.heap, @[j])]]]]

\* build_cmd on builder X, in the process and on its own.
DispatchPair(X, directive, args, name_hint) ==
    /\ instances[X].err = "none"
    /\ alone[X].dispatched < MaxPairItems
    /\ LET shared == Obj_build_cmd([heap |-> heap, self |-> instances[X]],
                                   directive, args, name_hint)
           solo == Obj_build_cmd([heap |-> alone[X].heap, self |-> alone[X].self],
                                 directive, args, name_hint)
       IN /\ heap' = shared.heap
          /\ instances' = [instances EXCEPT ![X] = shared.self]
          /\ alone' = [alone EXCEPT ![X] = [heap |-> solo.heap, self |-> solo.self,
                                            dispatched |-> @.dispatched + 1]]
    /\ UNCHANGED <<builder, err, finalizer, observers, recompose>>

Pair_VT ==
    /\ \E X \in Builders : DispatchPair(X, "VT", <<>>, "")
Pair_TRIS ==
    /\ \E X \in Builders, call \in TreeTrisCalls :
            DispatchPair(X, "TRIS", call.args, call.name_hint)
Pair_ANIM_begin ==
    /\ \E X \in Builders : DispatchPair(X, "ANIM_begin", <<>>, "")
Pair_ANIM_end ==
    /\ \E X \in Builders : DispatchPair(X, "ANIM_end", <<>>, "")
Pair_ANIM_trans_begin ==
    /\ \E X \in Builders, path \in TransPaths :
            DispatchPair(X, "ANIM_trans_begin", <<path>>, "")
Pair_ANIM_trans_key ==
    /\ \E X \in Builders, args \in KeyArgs : DispatchPair(X, "ANIM_trans_key", args, "")
Pair_ANIM_hide ==
    /\ \E X \in Builders, args \in ShowHideArgs : DispatchPair(X, "ANIM_hide", args, "")
Pair_ANIM_keyframe_loop ==
    /\ \E X \in Builders, args \in LoopArgs :
            DispatchPair(X, "ANIM_keyframe_loop", args, "")

NextPair ==
    \/ Pair_VT
    \/ Pair_TRIS
    \/ Pair_ANIM_begin
    \/ Pair_ANIM_end
    \/ Pair_ANIM_trans_begin
    \/ Pair_ANIM_trans_key
    \/ Pair_ANIM_hide
    \/ Pair_ANIM_keyframe_loop

SpecPair == Init /\ [][NextPair]_vars

----
\* The claims.

NonRoot == 2..Len(blocks)

\* C1: for a well-formed stream (no ANIM_end without an open block, no animation
\* begin outside a block) the frame stack is empty before the first directive
\* and whenever every opened block has been closed, so after the last directive.
C1_StackEmptyAroundWellFormedStream ==
    /\ (\A s \in Scenarios : scen[s] = 0) => stack = <<>>
    /\ (wellformed /\ anim_count = <<>>) => stack = <<>>

\* A well-formed stream that pushed two frames, made an empty for the first, and
\* closed its block.
C1_Witness ==
    /\ wellformed /\ err = "none" /\ finalize_calls = 0
    /\ anim_count = <<>> /\ stack = <<>>
    /\ \E b \in NonRoot : /\ blocks[b].datablock_type = "EMPTY"
                          /\ blocks[b].animations_to_apply # <<>>

\* C2: the stream ANIM_begin, ANIM_trans_begin, ANIM_trans_end,
\* ANIM_rotate_begin(X), ANIM_rotate_key, ANIM_rotate_end, ANIM_end raises no
\* error, holds two frames (one of the transform, one of the rotation) before
\* the ANIM_end, and the ANIM_end closes both.
C2_NestedBlockClosesTwoFrames ==
    /\ scen["nested"] \in 1..7 => err = "none"
    /\ scen["nested"] = 6 => (Len(stack) = 2 /\ anim_count = <<2>>)
    /\ scen["nested"] = 7 => (stack = <<>> /\ anim_count = <<>>)

\* C3: the stream ANIM_begin, ANIM_trans_begin("dataref/x"),
\* ANIM_trans_key(0, loc0), ANIM_trans_key(1, loc1), ANIM_trans_end, ANIM_end
\* leaves, besides ROOT, exactly one datablock: an EMPTY with one animation whose
\* dataref has 2 values and which has 2 locations.
C3_TranslateStreamYieldsOneEmpty ==
    Ran("translate") =>
        /\ Len(blocks) = 2
        /\ blocks[2].datablock_type = "EMPTY"
        /\ Len(blocks[2].animations_to_apply) = 1
        /\ Len(anims[blocks[2].animations_to_apply[1]].xp_dataref.values) = 2
        /\ Len(anims[blocks[2].animations_to_apply[1]].locations) = 2

\* What a stream of three vertices, the indices 0, 1, 2 and TRIS(0, 3) is to
\* yield: one MESH under ROOT, made with no parent and the one face (2, 1, 0).
OneTriangle ==
    /\ Len(blocks) = 2
    /\ blocks[2].datablock_type = "MESH"
    /\ finalize_calls = 0 => blocks[2].parent = "ROOT"
    /\ (finalize_calls = 1 /\ err = "none") =>
            /\ Len(scene) = 1
            /\ scene[1].helper = "create_datablock_mesh"
            /\ scene[1].parent = None
            /\ scene[1].faces = <<(<<2, 1, 0>>)>>

\* C4 as stated: the stream VT, VT, VT, IDX(0, 1, 2), TRIS(0, 3), the three
\* indices being the arguments of one IDX directive, yields one MESH under ROOT
\* whose geometry is the single triangle (2, 1, 0).
C4_TriangleStream_OneIDX == Ran("triangle_run") => OneTriangle

\* C4 amended: the stream VT, VT, VT, IDX(0), IDX(1), IDX(2), TRIS(0, 3) yields
\* one MESH under ROOT, made with no parent, whose geometry is the single
\* triangle (2, 1, 0).
C4_TriangleStream == Ran("triangle") => OneTriangle

C4_Witness ==
    /\ Ran("triangle") /\ finalize_calls = 1 /\ err = "none"
    /\ blocks[2].start_idx = 0 /\ blocks[2].count = 3
    /\ Len(scene[1].vertices) = 3

\* C5: a TRIS that finds the top frame unbound binds its new MESH, carrying the
\* frame's animation, to that frame; a TRIS that finds the top frame bound to a
\* MESH appends a MESH with no animation and the parent of the bound one, and
\* leaves the stack, so the binding, as it was.
C5_SecondTrisIsSibling ==
    [][(/\ stack # <<>>
        /\ Len(blocks') = Len(blocks) + 1
        /\ blocks'[Len(blocks')].datablock_type = "MESH")
       => LET top == stack[Len(stack)]
              new == blocks'[Len(blocks')]
          IN IF top.inter_datablock = NoBlock
             THEN /\ stack' = [stack EXCEPT ![Len(stack)].inter_datablock =
                                                Len(blocks) + 1]
                  /\ new.animations_to_apply = <<top.animation>>
             ELSE /\ stack' = stack
                  /\ new.animations_to_apply = <<>>
                  /\ blocks[top.inter_datablock].datablock_type = "MESH"
                        => new.parent = blocks[top.inter_datablock].parent]_vars

\* The top frame is bound to a MESH and a later MESH, its sibling, follows.
C5_Witness ==
    /\ stack # <<>> /\ err = "none"
    /\ LET bound == stack[Len(stack)].inter_datablock
       IN /\ bound # NoBlock
          /\ blocks[bound].datablock_type = "MESH"
          /\ blocks[bound].animations_to_apply # <<>>
          /\ \E b \in NonRoot : /\ b > bound
                                /\ blocks[b].datablock_type = "MESH"
                                /\ blocks[b].animations_to_apply = <<>>
                                /\ blocks[b].parent = blocks[bound].parent

\* The angle recorded for an axis at keyframe i, 0 for an axis never used.
AngleOrZero(rotations, axis, i) ==
    IF axis \in DOMAIN rotations THEN rotations[axis][i + 1] ELSE 0

\* C6: recompose_rotation(i) gives (x, y, z), each the angle recorded for that
\* axis at keyframe i and 0 for an axis that was never used: degrees [10] on X
\* and [20] on Y give (10, 20, 0) at keyframe 0.
C6_RecomposeUnusedAxisIsZero ==
    (/\ rec_result.err # "pending"
     /\ DOMAIN rec_rotations # {}
     /\ \A a \in DOMAIN rec_rotations : rec_i < Len(rec_rotations[a]))
    => /\ rec_result.err = "none"
       /\ rec_result.rot = <<AngleOrZero(rec_rotations, "X", rec_i),
                             AngleOrZero(rec_rotations, "Y", rec_i),
                             AngleOrZero(rec_rotations, "Z", rec_i)>>

\* C7: a second finalize_intermediate_blocks, with datablocks in the list, raises
\* and makes no request to the scene helpers.
C7_SecondFinalizeMaterializesNothing ==
    (finalize_calls = 2 /\ Len(blocks) > 1) => (err # "none" /\ scene = <<>>)

\* C8: a directive build_cmd does not recognize changes nothing the builder holds
\* (table, stack, open counts, active axis, datablocks) and raises nothing.
C8_UnrecognizedDirectiveChangesNothing ==
    [][Unrecognized => (UNCHANGED builder /\ err' = "none")]_vars

\* An unrecognized directive was dispatched with a block open and a frame pushed.
C8_Witness ==
    Ran("skipped") /\ err = "none" /\ Len(stack) = 1 /\ anim_count = <<1>>

\* C9: ANIM_trans_key, ANIM_show, ANIM_hide and ANIM_keyframe_loop dispatched
\* with the frame stack empty raise, and leave the table, the stack, the open
\* counts and the datablocks as they were.
C9_KeyframeWithoutFrameRaises ==
    [][(/\ stack = <<>>
        /\ ANIM_trans_key \/ ANIM_show \/ ANIM_hide \/ ANIM_keyframe_loop)
       => (err' # "none" /\ UNCHANGED builder)]_vars

\* ANIM_trans_key was dispatched inside a block that opened no animation.
C9_Witness ==
    Ran("stray_key") /\ err = "AttributeError" /\ stack = <<>> /\ anim_count = <<0>>

\* C10: ANIM_end dispatched with no block open raises, pops no frame and leaves
\* the stack and the datablocks as they were.
C10_EndWithoutBlockRaises ==
    [][(anim_count = <<>> /\ ANIM_end)
       => (err' # "none" /\ UNCHANGED builder)]_vars

\* A second ANIM_end followed the one that closed the only block.
C10_Witness ==
    Ran("stray_end") /\ err = "IndexError" /\ anim_count = <<>> /\ Len(blocks) = 1

\* A step that appended a MESH: a TRIS was dispatched.
AppendsMesh ==
    /\ Len(blocks') = Len(blocks) + 1
    /\ blocks'[Len(blocks')].datablock_type = "MESH"

\* The name of the datablock the frame below the top is bound to, ROOT when
\* there is no such frame.
NextEnclosing ==
    IF Len(stack) >= 2 THEN blocks[stack[Len(stack) - 1].inter_datablock].name
    ELSE "ROOT"

\* C11: finalize_intermediate_blocks called with frames still on the stack (a
\* block was begun and not ended) raises and makes no request to the scene
\* helpers.
C11_FinalizeWithOpenFramesRejected ==
    (finalize_calls = 1 /\ stack # <<>> /\ Len(blocks) > 1)
        => (err # "none" /\ scene = <<>>)

\* C12: a TRIS that binds its MESH to the unbound top frame gives it, as parent,
\* the datablock bound to the frame below the top, ROOT when the top frame is
\* the only one.
C12_BoundMeshParentIsNextEnclosing ==
    [][(/\ AppendsMesh
        /\ stack # <<>>
        /\ stack[Len(stack)].inter_datablock = NoBlock)
       => /\ stack'[Len(stack)].inter_datablock = Len(blocks')
          /\ blocks'[Len(blocks')].parent = NextEnclosing]_vars

\* Two frames, the lower bound to an EMPTY, the top bound to a MESH whose parent
\* is that EMPTY.
C12_Witness ==
    /\ Len(stack) = 2 /\ err = "none"
    /\ stack[1].inter_datablock # NoBlock
    /\ blocks[stack[1].inter_datablock].datablock_type = "EMPTY"
    /\ stack[2].inter_datablock # NoBlock
    /\ blocks[stack[2].inter_datablock].datablock_type = "MESH"
    /\ blocks[stack[2].inter_datablock].animations_to_apply = <<stack[2].animation>>
    /\ blocks[stack[2].inter_datablock].parent = "next_empty_name"

\* A TRIS finds nothing to pair its MESH with: no frame, or a bound top frame.
Unpaired == stack = <<>> \/ stack[Len(stack)].inter_datablock # NoBlock

\* C13 as stated: a TRIS that does not bind its MESH to a frame gives it ROOT
\* as parent, at every stack depth.
C13_UnboundMeshParentIsRoot ==
    [][(AppendsMesh /\ Unpaired) => blocks'[Len(blocks')].parent = "ROOT"]_vars

\* C13 amended: a TRIS that does not bind its MESH to a frame gives it, as
\* parent, the datablock bound to the frame below the top of the stack, and
\* ROOT when the stack holds fewer than two frames.
C13_UnboundMeshParentIsNextEnclosing ==
    [][(AppendsMesh /\ Unpaired)
       => /\ blocks'[Len(blocks')].parent = NextEnclosing
          /\ blocks'[Len(blocks')].animations_to_apply = <<>>
          /\ stack' = stack]_vars

\* Two frames, the top one bound, and a later MESH without animation under the
\* EMPTY of the lower frame.
C13_Witness ==
    /\ Len(stack) = 2 /\ err = "none" /\ finalize_calls = 0
    /\ stack[2].inter_datablock # NoBlock
    /\ blocks[stack[1].inter_datablock].datablock_type = "EMPTY"
    /\ \E b \in NonRoot : /\ b > stack[2].inter_datablock
                          /\ blocks[b].datablock_type = "MESH"
                          /\ blocks[b].animations_to_apply = <<>>
                          /\ blocks[b].parent = "next_empty_name"

\* What ANIM_trans_begin with the given path is to do.
TransBeginEffect(path) ==
    LET top == Len(stack)
        pushed == stack'[Len(stack')]
    IN /\ Len(stack') = top + 1
       /\ pushed.inter_datablock = NoBlock
       /\ pushed.animation \notin LiveAnims(stack, blocks)
       /\ anims'[pushed.animation].xp_dataref =
              IntermediateDataref(ANIM_TYPE_TRANSFORM, 0, path, 0, 0, <<>>)
       /\ IF top > 0 /\ stack[top].inter_datablock = NoBlock
          THEN /\ Len(blocks') = Len(blocks) + 1
               /\ SubSeq(blocks', 1, Len(blocks)) = blocks
               /\ blocks'[Len(blocks')].datablock_type = "EMPTY"
               /\ blocks'[Len(blocks')].animations_to_apply = <<stack[top].animation>>
               /\ SubSeq(stack', 1, top) =
                      [stack EXCEPT ![top].inter_datablock = Len(blocks')]
          ELSE /\ blocks' = blocks
               /\ SubSeq(stack', 1, top) = stack

\* C14: ANIM_trans_begin appends one EMPTY, bound to the frame on top before the
\* push and carrying that frame's animation, exactly when there was a top frame
\* and it was unbound; in every case it pushes one new unbound frame whose
\* dataref is a transform with the given path, loop 0 and no values.
C14_TransBeginMakesEmptyAndPushes ==
    [][\A path \in TransPaths :
          (err = "none" /\ build_cmd("ANIM_trans_begin", <<path>>, ""))
              => TransBeginEffect(path)]_vars

\* The last datablock is the EMPTY made for the frame below the top, and the top
\* frame is the new, unbound one.
C14_Witness ==
    /\ Len(stack) >= 2 /\ err = "none" /\ finalize_calls = 0
    /\ stack[Len(stack)].inter_datablock = NoBlock
    /\ anims[stack[Len(stack)].animation].xp_dataref.path = "dataref/x"
    /\ anims[stack[Len(stack)].animation].xp_dataref.values = <<>>
    /\ stack[Len(stack) - 1].inter_datablock = Len(blocks)
    /\ blocks[Len(blocks)].datablock_type = "EMPTY"
    /\ blocks[Len(blocks)].animations_to_apply = <<stack[Len(stack) - 1].animation>>

\* C15: ANIM_rotate_begin inside an open block raises nothing, pushes one frame
\* whose dataref is a transform with the given path, makes the axis the active
\* one and adds one to the open count of the innermost block.
C15_RotateBeginPushesFrame ==
    [][\A axis \in RotateAxes, path \in TransPaths :
          (/\ err = "none"
           /\ anim_count # <<>>
           /\ build_cmd("ANIM_rotate_begin", <<axis, path>>, ""))
          => /\ err' = "none"
             /\ last_axis' = axis
             /\ Len(stack') = Len(stack) + 1
             /\ anims'[stack'[Len(stack')].animation].xp_dataref.anim_type
                    = ANIM_TYPE_TRANSFORM
             /\ anims'[stack'[Len(stack')].animation].xp_dataref.path = path
             /\ anim_count' = [anim_count EXCEPT ![Len(anim_count)] = @ + 1]]_vars

IsCreate(request) ==
    request.helper \in {"create_datablock_empty", "create_datablock_mesh"}

\* C16: a finalize_intermediate_blocks that returns has made one create request
\* for each datablock but ROOT, in the order of the list and none for ROOT, and
\* the set_animation_data requests of a datablock, one for each of its
\* animations, lie between its create request and the next one.
C16_OneCreatePerDatablockInOrder ==
    (finalize_calls >= 1 /\ err = "none") =>
        LET creates == SelectSeq(scene, IsCreate)
        IN /\ Len(creates) = Len(blocks) - 1
           /\ \A k \in 1..Len(creates) :
                /\ creates[k].block = k + 1
                /\ creates[k].helper =
                       IF blocks[k + 1].datablock_type = "EMPTY"
                       THEN "create_datablock_empty" ELSE "create_datablock_mesh"
           /\ \A r \in 1..Len(scene) :
                ~IsCreate(scene[r]) =>
                    \E c \in 1..(r - 1) :
                        /\ IsCreate(scene[c])
                        /\ scene[c].block = scene[r].block
                        /\ \A m \in (c + 1)..r : ~IsCreate(scene[m])
           /\ \A b \in NonRoot :
                Cardinality({r \in 1..Len(scene) :
                                ~IsCreate(scene[r]) /\ scene[r].block = b})
                    = Len(blocks[b].animations_to_apply)

\* Three datablocks were made, the first with an animation applied before the
\* second was created.
C16_Witness ==
    /\ finalize_calls = 1 /\ err = "none"
    /\ Len(blocks) = 4 /\ Len(scene) >= 4
    /\ scene[1].helper = "create_datablock_empty" /\ scene[1].block = 2
    /\ scene[2].helper = "set_animation_data" /\ scene[2].block = 2
    /\ IsCreate(scene[3]) /\ scene[3].block = 3
    /\ scene[Len(scene)].block = 4

\* C17: for every MESH made whose range lies within the index table, each
\* consecutive triple (a, b, c) of the range is one face (c, b, a), and there
\* are as many faces as triples.
C17_FacesReverseTriples ==
    finalize_calls >= 1 =>
        \A r \in 1..Len(scene) :
            (/\ scene[r].helper = "create_datablock_mesh"
             /\ blocks[scene[r].block].start_idx + blocks[scene[r].block].count
                    <= Len(idxes))
            => LET lo == blocks[scene[r].block].start_idx
                   count == blocks[scene[r].block].count
                   range == SubSeq(idxes, lo + 1, lo + count)
               IN /\ Len(scene[r].faces) = count \div 3
                  /\ \A f \in 1..(count \div 3) :
                        scene[r].faces[f] =
                            <<range[3 * f], range[3 * f - 1], range[3 * f - 2]>>

\* C18: build_mesh of a MESH whose start_idx + count is beyond the end of the
\* index table raises, and no mesh is made from the shorter slice.
C18_RangeBeyondTableRaises ==
    LET beyond == {b \in Meshes :
                      blocks[b].start_idx + blocks[b].count > Len(idxes)}
    IN (finalize_calls = 1 /\ beyond # {})
        => /\ err # "none"
           /\ \A r \in 1..Len(scene) :
                scene[r].helper = "create_datablock_mesh" => scene[r].block \notin beyond

\* The keyframes an animation is to give.
KeyframesAsStated(animation, keyframe_infos) ==
    LET dataref == animation.xp_dataref
    IN IF dataref.anim_type = ANIM_TYPE_TRANSFORM
       THEN /\ Len(keyframe_infos) = Len(dataref.values)
            /\ \A i \in 1..Len(keyframe_infos) :
                 /\ keyframe_infos[i].idx = i
                 /\ keyframe_infos[i].dataref_value = dataref.values[i]
                 /\ animation.locations # <<>>
                        => keyframe_infos[i].location = animation.locations[i]
       ELSE /\ Len(keyframe_infos) = 1
            /\ keyframe_infos[1].idx = 1
            /\ keyframe_infos[1].dataref_anim_type = dataref.anim_type
            /\ keyframe_infos[1].dataref_show_hide_v1 = dataref.show_hide_v1
            /\ keyframe_infos[1].dataref_show_hide_v2 = dataref.show_hide_v2

\* C19: every set_animation_data request of a finalization carries, for a
\* transform dataref, one keyframe per value, numbered 1..n in order, keyframe i
\* with values[i] and, when there are locations, locations[i]; for a show or
\* hide dataref exactly one keyframe, numbered 1, with (v1, v2), however many
\* values the dataref has.
C19_KeyframesPerDatarefKind ==
    finalize_calls >= 1 =>
        \A r \in 1..Len(scene) :
            scene[r].helper = "set_animation_data" =>
                /\ Len(blocks[scene[r].block].animations_to_apply) = 1
                /\ KeyframesAsStated(
                       anims[blocks[scene[r].block].animations_to_apply[1]],
                       scene[r].keyframe_infos)

\* A transform animation of two keyframes with locations was applied.
C19_Witness ==
    /\ finalize_calls = 1 /\ err = "none"
    /\ \E r \in 1..Len(scene) :
         /\ scene[r].helper = "set_animation_data"
         /\ Len(scene[r].keyframe_infos) = 2
         /\ scene[r].keyframe_infos[2].idx = 2
         /\ scene[r].keyframe_infos[2].dataref_value = 1
         /\ scene[r].keyframe_infos[2].location = "loc1"

\* C20: while no call has raised, every animation, on the stack or attached to
\* a datablock, has as many locations as its dataref has values unless it has
\* none, and as many angles on every axis it has rotations for.
C20_KeyframeSequencesAgree ==
    err = "none" =>
        \A a \in LiveAnims(stack, blocks) :
            /\ anims[a].locations # <<>>
                  => Len(anims[a].locations) = Len(anims[a].xp_dataref.values)
            /\ \A axis \in DOMAIN anims[a].rotations :
                  Len(anims[a].rotations[axis]) = Len(anims[a].xp_dataref.values)

\* An animation with two values and two locations, attached to a datablock.
C20_Witness ==
    /\ err = "none" /\ finalize_calls = 0
    /\ \E b \in NonRoot :
         /\ blocks[b].animations_to_apply # <<>>
         /\ Len(anims[blocks[b].animations_to_apply[1]].locations) = 2
         /\ Len(anims[blocks[b].animations_to_apply[1]].xp_dataref.values) = 2

\* C21: no step changes a frame below the top of the stack that stays on the
\* stack: its animation, with locations, rotations and dataref, and the
\* datablock it is bound to are as before.
C21_FramesBelowTopUntouched ==
    [][\A k \in 1..(Len(stack) - 1) :
          k <= Len(stack') =>
              /\ stack'[k] = stack[k]
              /\ anims'[stack[k].animation] = anims[stack[k].animation]]_vars

\* Two frames: keyframes were recorded on the top one, none on the lower one.
C21_Witness ==
    /\ Len(stack) = 2 /\ err = "none" /\ finalize_calls = 0
    /\ stack[1].inter_datablock # NoBlock
    /\ anims[stack[1].animation].xp_dataref.values = <<>>
    /\ anims[stack[1].animation].locations = <<>>
    /\ Len(anims[stack[2].animation].xp_dataref.values) = 1
    /\ Len(anims[stack[2].animation].locations) = 1

\* C22: while directives are dispatched the list of datablocks only grows: each
\* datablock stays at its position with its type, name, start_idx, count and
\* parent, and ROOT stays first.
C22_DatablocksOnlyAppended ==
    [][finalize_calls' = 0 =>
          /\ Len(blocks') >= Len(blocks)
          /\ blocks'[1] = root_intermediate_datablock
          /\ \A b \in 1..Len(blocks) :
                /\ blocks'[b].datablock_type = blocks[b].datablock_type
                /\ blocks'[b].name = blocks[b].name
                /\ blocks'[b].start_idx = blocks[b].start_idx
                /\ blocks'[b].count = blocks[b].count
                /\ blocks'[b].parent = blocks[b].parent]_vars

\* An EMPTY, then a MESH with a name hint, then a MESH without.
C22_Witness ==
    /\ Len(blocks) = 4 /\ err = "none" /\ finalize_calls = 0
    /\ blocks[2].datablock_type = "EMPTY"
    /\ blocks[3].datablock_type = "MESH" /\ blocks[3].name = "hinted"
    /\ blocks[4].datablock_type = "MESH" /\ blocks[4].name = "next_obj_name"

\* C23: ANIM_hide and ANIM_show with a frame on the stack set the dataref of the
\* top frame to hide or show, to the given path and to the thresholds (v1, v2),
\* and leave the stack, the datablocks and every other animation as they were.
C23_ShowHideOverwritesTopDataref ==
    [][\A directive \in {"ANIM_hide", "ANIM_show"}, args \in ShowHideArgs :
          (/\ err = "none"
           /\ stack # <<>>
           /\ build_cmd(directive, args, ""))
          => LET top == stack[Len(stack)].animation
             IN /\ err' = "none"
                /\ stack' = stack
                /\ blocks' = blocks
                /\ anims'[top].xp_dataref.anim_type =
                       IF directive = "ANIM_hide" THEN ANIM_TYPE_HIDE
                       ELSE ANIM_TYPE_SHOW
                /\ anims'[top].xp_dataref.path = args[3]
                /\ anims'[top].xp_dataref.show_hide_v1 = args[1]
                /\ anims'[top].xp_dataref.show_hide_v2 = args[2]
                /\ Len(anims') = Len(anims)
                /\ \A a \in 1..Len(anims) : a # top => anims'[a] = anims[a]]_vars

\* Two frames: the top one hides on dataref/s between 1 and 2, the lower one is
\* still the transform it began as.
C23_Witness ==
    /\ Len(stack) = 2 /\ err = "none" /\ finalize_calls = 0
    /\ anims[stack[2].animation].xp_dataref.anim_type = ANIM_TYPE_HIDE
    /\ anims[stack[2].animation].xp_dataref.path = "dataref/s"
    /\ anims[stack[2].animation].xp_dataref.show_hide_v1 = 1
    /\ anims[stack[2].animation].xp_dataref.show_hide_v2 = 2
    /\ anims[stack[1].animation].xp_dataref.anim_type = ANIM_TYPE_TRANSFORM
    /\ anims[stack[1].animation].xp_dataref.path = "dataref/x"

\* A request but for its normals.
SansNormals(request) == [request EXCEPT !.normals = FALSE]

\* C24: a finalize_intermediate_blocks in which me.validate() reports failures
\* gets at least as far as the one in which every mesh passes: it makes the same
\* requests in the same order, a failing MESH among them without normals, and
\* it returns whenever the other returns.
C24_InvalidMeshDoesNotStopFinalize ==
    [][\A validate_rets \in [{MeshData(blocks[b]) : b \in Meshes} -> BOOLEAN] :
          (/\ err = "none"
           /\ finalize_calls = 0
           /\ finalize_intermediate_blocks(validate_rets))
          => LET passing == FinalizeFrom(2, blocks, <<>>,
                                [m \in DOMAIN validate_rets |-> FALSE])
             IN /\ Len(scene') >= Len(passing.requests)
                /\ passing.err = "none" =>
                       /\ err' = "none"
                       /\ Len(SelectSeq(scene', IsCreate)) = Len(blocks) - 1
                /\ \A r \in 1..Len(passing.requests) :
                       /\ SansNormals(scene'[r]) = SansNormals(passing.requests[r])
                       /\ (/\ scene'[r].helper = "create_datablock_mesh"
                           /\ validate_rets[MeshData(blocks[scene'[r].block])])
                          => ~scene'[r].normals]_vars

\* finalize_intermediate_blocks returned: the first MESH, with a face, failed
\* me.validate() and was created, and the MESH after it passed and was created.
C24_Witness ==
    /\ finalize_calls = 1 /\ err = "none"
    /\ Len(blocks) = 3 /\ Len(scene) = 2
    /\ scene[1].helper = "create_datablock_mesh" /\ scene[1].block = 2
    /\ scene[1].faces # <<>> /\ ~scene[1].normals
    /\ scene[2].helper = "create_datablock_mesh" /\ scene[2].block = 3
    /\ scene[2].normals

\* C26: after every directive that raised nothing the stack holds as many
\* frames as the counts of open animations add up to, so the ANIM_end to come
\* finds the frames it pops and they are those opened since its ANIM_begin.
C26_StackDepthIsSumOfCounts ==
    (err = "none" /\ finalize_calls = 0) =>
        /\ Len(stack) = Sum(anim_count)
        /\ anim_count # <<>> => anim_count[Len(anim_count)] <= Len(stack)

\* Two blocks are open, one frame opened in each.
C26_Witness ==
    /\ err = "none" /\ finalize_calls = 0
    /\ anim_count = <<1, 1>> /\ Len(stack) = 2

\* C27: every frame below the top of the stack is bound to a datablock.
C27_FramesBelowTopAreBound ==
    \A k \in 1..(Len(stack) - 1) : stack[k].inter_datablock # NoBlock

\* Two frames: the lower one was bound to an EMPTY made for it, and a MESH made
\* under the top one has that EMPTY as parent.
C27_Witness ==
    /\ err = "none" /\ finalize_calls = 0 /\ Len(stack) = 2
    /\ blocks[stack[1].inter_datablock].datablock_type = "EMPTY"
    /\ stack[2].inter_datablock # NoBlock
    /\ blocks[stack[2].inter_datablock].datablock_type = "MESH"
    /\ blocks[stack[2].inter_datablock].parent =
           blocks[stack[1].inter_datablock].name

\* C28: ANIM_trans_begin with no block open raises and leaves the stack and the
\* datablocks as they were.
C28_TransBeginWithoutBlockLeavesNoFrame ==
    [][\A args \in {<<path>> : path \in TransPaths} :
          (/\ err = "none"
           /\ finalize_calls = 0
           /\ anim_count = <<>>
           /\ build_cmd("ANIM_trans_begin", args, ""))
          => /\ err' # "none"
             /\ stack' = stack
             /\ blocks' = blocks]_vars

\* C29: an EMPTY made for a frame has as parent the datablock bound to the frame
\* below that frame, ROOT when there is no frame below.
C29_EmptyParentIsEnclosingFrame ==
    finalize_calls = 0 =>
        \A k \in 1..Len(stack) :
            (/\ stack[k].inter_datablock # NoBlock
             /\ blocks[stack[k].inter_datablock].datablock_type = "EMPTY")
            => blocks[stack[k].inter_datablock].parent =
                   IF k >= 2 /\ stack[k - 1].inter_datablock # NoBlock
                   THEN blocks[stack[k - 1].inter_datablock].name
                   ELSE root_intermediate_datablock.name

\* The datablocks that have animation a in their animations_to_apply.
Attached(a) ==
    {b \in 1..Len(blocks) :
        \E j \in 1..Len(blocks[b].animations_to_apply) :
            blocks[b].animations_to_apply[j] = a}

Frames == {f \in Builders \X (1..(MaxPairItems + 1)) : f[2] <= Len(instances[f[1]].stack)}

AnimationOf(f) == instances[f[1]].stack[f[2]].animation

\* C25: however the directives of two builders interleave, each builder holds
\* what it holds when it is sent its directives alone (stack, table, datablocks,
\* and the keyframes and dataref fields of its animations), and no two frames,
\* of one builder or of both, have the same animation or the same dataref.
C25_BuildersIndependent ==
    /\ \A X \in Builders :
          Contents([heap |-> heap, self |-> instances[X]]) =
              Contents([heap |-> alone[X].heap, self |-> alone[X].self])
    /\ \A f, g \in Frames :
          f # g => /\ AnimationOf(f) # AnimationOf(g)
                   /\ heap.animations[AnimationOf(f)].xp_dataref #
                          heap.animations[AnimationOf(g)].xp_dataref

\* Both builders have a frame open: A recorded a keyframe on its dataref, B
\* made its dataref hide on another path.
C25_Witness ==
    /\ instances["A"].err = "none" /\ instances["B"].err = "none"
    /\ Len(instances["A"].stack) = 1 /\ Len(instances["B"].stack) = 1
    /\ LET a == heap.datarefs[heap.animations[AnimationOf(<<"A", 1>>)].xp_dataref]
           b == heap.datarefs[heap.animations[AnimationOf(<<"B", 1>>)].xp_dataref]
       IN /\ a.values = <<1>> /\ a.path = "dataref/x"
          /\ a.anim_type = ANIM_TYPE_TRANSFORM
          /\ b.values = <<>> /\ b.path = "dataref/s"
          /\ b.anim_type = ANIM_TYPE_HIDE

\* C31: the parent of every datablock but ROOT is ROOT (None once build_mesh
\* has cleared it) or the name of a datablock earlier in the list, and every
\* create request names as parent nothing, ROOT or a datablock created by an
\* earlier request.
C31_ParentsComeFirst ==
    /\ \A b \in NonRoot :
          \/ blocks[b].parent = root_intermediate_datablock.name
          \/ finalize_calls >= 1 /\ blocks[b].parent = None
          \/ \E p \in 2..(b - 1) : blocks[p].name = blocks[b].parent
    /\ \A r \in 1..Len(scene) :
          IsCreate(scene[r]) =>
              \/ scene[r].parent \in {None, root_intermediate_datablock.name}
              \/ \E c \in 1..(r - 1) :
                    IsCreate(scene[c]) /\ scene[c].name = scene[r].parent

\* A MESH with a name hint is the child of an EMPTY that stands before it.
C31_Witness ==
    /\ err = "none" /\ finalize_calls = 0
    /\ \E b \in NonRoot, p \in NonRoot :
          /\ p < b
          /\ blocks[p].datablock_type = "EMPTY"
          /\ blocks[b].datablock_type = "MESH"
          /\ blocks[b].name = "hinted"
          /\ blocks[b].parent = blocks[p].name

\* C32: the datablocks of one builder have pairwise distinct names.
C32_NamesAreDistinct ==
    \A b1, b2 \in 1..Len(blocks) : b1 # b2 => blocks[b1].name # blocks[b2].name

\* C33: for every MESH made whose range lies within the index table and whose
\* indices are all below the number of vertices, each index of each face is in
\* 0 .. n-1, n the number of vertices handed over, and the vertex found there is
\* the one the index of the table refers to.
C33_FaceIndicesReferToTheirVertices ==
    finalize_calls >= 1 =>
        \A r \in 1..Len(scene) :
            LET lo == blocks[scene[r].block].start_idx
                count == blocks[scene[r].block].count
                range == SubSeq(idxes, lo + 1, lo + count)
            IN (/\ scene[r].helper = "create_datablock_mesh"
                /\ lo + count <= Len(idxes)
                /\ \A i \in 1..count : range[i] < Len(vertices))
               => \A f \in 1..Len(scene[r].faces) :
                     \A k \in 1..Len(scene[r].faces[f]) :
                        /\ 0 <= scene[r].faces[f][k]
                        /\ scene[r].faces[f][k] < Len(scene[r].vertices)
                        /\ scene[r].vertices[scene[r].faces[f][k] + 1] =
                               vertices[range[3 * f + 1 - k] + 1]

====
